---- MODULE Spec2Model ----
(***************************************************************************)
(* Model of mergeScans.py: class MergePDF.  Constructing the object runs   *)
(* the whole pipeline: open_files, check_pages, (rotate_pages), merge_files *)
(* and move_files.  The file system is a map from the five path names the   *)
(* program touches to their contents; the outcomes of the library calls     *)
(* that can fail (PdfReader, open/write, os.makedirs, shutil.move) are      *)
(* nondeterministic inputs of the actions.                                  *)
(***************************************************************************)
EXTENDS Integers, Sequences, FiniteSets, TLC

\* ---------------------------------------------------------------- bounds
\* The longest scan batch, in pages.
MaxPages == 3
\* The number of rotate_pages calls a client makes in SpecRotate.
MaxCalls == 2

\* /Rotate values the pages of an input file may carry.
InitRotations == {0, 90}
\* Arguments rotate_pages is called with: 'front' is no valid target, 45 is
\* no multiple of 90.
Targets == {"odd", "even", "front"}
Angles == {-90, 45, 180, 270}

VARIABLES
    pc,             \* position in __init__: the method about to run
    raised,         \* the exception that ended the run, "none" otherwise
    files,          \* the file system: path name -> content
    odd_reader,     \* pages of PdfReader(self.odd), <<>> before open_files
    even_reader,    \* pages of PdfReader(self.even)
    odd_pages,      \* self.odd_pages
    even_pages,     \* self.even_pages
    check,          \* self.check
    merge,          \* pages added to the PdfWriter self.merge
    out,            \* the lines printed, as tags
    files0,         \* history: the file system when the run started
    stages,         \* history: the pipeline stages entered, in order
    moves,          \* history: the shutil.move calls made and their outcomes
    rot_calls       \* history: the rotate_pages calls made, <<target, angle>>

vars == <<pc, raised, files, odd_reader, even_reader, odd_pages,
          even_pages, check, merge, out, files0, stages, moves, rot_calls>>

\* ------------------------------------------------------------ file system
Paths == {"odd", "even", "merged", "archive_folder", "odd_new_name", "even_new_name"}

NoFile == [kind |-> "none", pages |-> <<>>]
Corrupt == [kind |-> "corrupt", pages |-> <<>>]
Truncated == [kind |-> "truncated", pages |-> <<>>]
Directory == [kind |-> "dir", pages |-> <<>>]
Pdf(pages) == [kind |-> "pdf", pages |-> pages]

\* A page of document d: its 0-based position in the scan and its /Rotate.
Page(d, i, r) == [doc |-> d, num |-> i, rot |-> r]

Docs(d) ==
    UNION {{[i \in 1..n |-> Page(d, i - 1, f[i])] : f \in [1..n -> InitRotations]}
           : n \in 0..MaxPages}

\* An input file is missing, unreadable, or a PDF of 0..MaxPages pages.
InputFiles(d) == {NoFile, Corrupt} \cup {Pdf(s) : s \in Docs(d)}

\* A file an earlier run on the same day left in the archive.
Archived(d) == Pdf(<<Page(d, 0, 180)>>)

\* os.path.exists(path)
PathExists(fs, path) == fs[path].kind # "none"

\* Python's 0-based indexing of a list.
At(s, i) == s[i + 1]

\* ------------------------------------------------------------------- Init
Init ==
    /\ pc = "open_files"
    /\ raised = "none"
    /\ \E o \in InputFiles("odd"), e \in InputFiles("even"), dir \in {NoFile, Directory},
          ao \in {NoFile, Archived("old_odd")}, ae \in {NoFile, Archived("old_even")} :
          /\ dir = Directory \/ (ao = NoFile /\ ae = NoFile)
          /\ files = [p \in Paths |->
                        CASE p = "odd" -> o
                          [] p = "even" -> e
                          [] p = "merged" -> NoFile
                          [] p = "archive_folder" -> dir
                          [] p = "odd_new_name" -> ao
                          [] p = "even_new_name" -> ae]
    /\ files0 = files
    /\ odd_reader = <<>>
    /\ even_reader = <<>>
    /\ odd_pages = 0
    /\ even_pages = 0
    /\ check = FALSE
    /\ merge = <<>>
    /\ out = <<>>
    /\ stages = <<>>
    /\ moves = <<>>
    /\ rot_calls = <<>>

\* ------------------------------------------------------------- sequencing
\* Bug: move_files called before merge_files.
AfterStageArchiveFirst(stage) ==
    CASE stage = "open_files" -> "check_pages"
      [] stage = "rotate_pages" -> "move_files"
      [] stage = "move_files" -> "merge_files"
      [] stage = "merge_files" -> "done"

\* The method __init__ calls after `stage` returns normally.
AfterStage(stage) ==
    CASE stage = "open_files" -> "check_pages"
      [] stage = "rotate_pages" -> "merge_files"
      [] stage = "merge_files" -> "move_files"
      [] stage = "move_files" -> "done"

\* The guard `if self.check:` of __init__.
AfterCheck(c) == IF c THEN "rotate_pages" ELSE "aborted"

Crash(exc) ==
    /\ pc' = "crashed"
    /\ raised' = exc

\* ------------------------------------------------------------- open_files
\* Bug: an unreadable file is taken for an empty document.
OpenFailsWhenMissing(content) == content.kind = "none"

\* PdfReader(name) raises when the file is missing or is no PDF.
OpenFails(content) == content.kind # "pdf"

open_files ==
    /\ pc = "open_files"
    /\ stages' = Append(stages, "load")
    /\ IF OpenFails(files["odd"])
       THEN /\ Crash("PdfReader_odd")
            /\ UNCHANGED <<odd_reader, even_reader, odd_pages, even_pages>>
       ELSE IF OpenFails(files["even"])
       THEN /\ Crash("PdfReader_even")
            /\ odd_reader' = files["odd"].pages
            /\ UNCHANGED <<even_reader, odd_pages, even_pages>>
       ELSE /\ odd_reader' = files["odd"].pages
            /\ even_reader' = files["even"].pages
            /\ odd_pages' = Len(files["odd"].pages)
            /\ even_pages' = Len(files["even"].pages)
            /\ pc' = AfterStage("open_files")
            /\ UNCHANGED raised
    /\ UNCHANGED <<files, check, merge, out, files0, moves, rot_calls>>

\* ------------------------------------------------------------ check_pages
\* Bug: the back may hold more pages than the front.
PagesAtMost(o, e) == o <= e

\* self.odd_pages == self.even_pages
PagesEqual(o, e) == o = e

check_pages ==
    /\ pc = "check_pages"
    /\ stages' = Append(stages, "validate")
    /\ check' = PagesEqual(odd_pages, even_pages)
    /\ out' = Append(out, IF check' THEN "equal_executing_merge" ELSE "not_equal_aborting")
    /\ pc' = AfterCheck(check')
    /\ UNCHANGED <<raised, files, odd_reader, even_reader, odd_pages,
                   even_pages, merge, files0, moves, rot_calls>>

\* ----------------------------------------------------------- rotate_pages
\* Bug: the angle replaces the page's /Rotate.
SetPageRotation(page, angle) == [page EXCEPT !.rot = angle]

\* page.rotate(angle): the angle is added to the page's /Rotate, not reduced.
RotatePage(page, angle) == [page EXCEPT !.rot = @ + angle]

\* `for page in reader.pages: page.rotate(angle)`
RotateAll(pages, angle) == [i \in 1..Len(pages) |-> RotatePage(pages[i], angle)]

\* page.rotate raises ValueError for an angle that is no multiple of 90; the
\* loop reaches it on the first page, before any page has been changed.
RotateRaises(pages, angle) == pages # <<>> /\ angle % 90 # 0

\* Bug: a plain else in place of the elif, so any other target rotates the back.
TargetBranchNoElif(target) == IF target = "odd" THEN "odd" ELSE "even"

\* The branch of the if/elif/else a target takes.
TargetBranch(target) ==
    IF target = "odd" THEN "odd"
    ELSE IF target = "even" THEN "even"
    ELSE "invalid"

\* The body of rotate_pages(target, angle); `next` is where the caller goes on.
RotateBody(target, angle, next) ==
    /\ rot_calls' = Append(rot_calls, <<target, angle>>)
    /\ stages' = Append(stages, "rotate")
    /\ CASE TargetBranch(target) = "odd" ->
              IF RotateRaises(odd_reader, angle)
              THEN /\ Crash("ValueError")
                   /\ UNCHANGED <<odd_reader, even_reader, out>>
              ELSE /\ odd_reader' = RotateAll(odd_reader, angle)
                   /\ out' = Append(out, "rotated_odd")
                   /\ pc' = next
                   /\ UNCHANGED <<even_reader, raised>>
         [] TargetBranch(target) = "even" ->
              IF RotateRaises(even_reader, angle)
              THEN /\ Crash("ValueError")
                   /\ UNCHANGED <<odd_reader, even_reader, out>>
              ELSE /\ even_reader' = RotateAll(even_reader, angle)
                   /\ out' = Append(out, "rotated_even")
                   /\ pc' = next
                   /\ UNCHANGED <<odd_reader, raised>>
         [] OTHER ->
              /\ out' = Append(out, "invalid_target")
              /\ pc' = next
              /\ UNCHANGED <<odd_reader, even_reader, raised>>
    /\ UNCHANGED <<files, odd_pages, even_pages, check, merge, files0, moves>>

\* Line 50 enabled: one call between check_pages and merge_files.
rotate_pages ==
    /\ pc = "rotate_pages"
    /\ \E target \in Targets, angle \in Angles :
          RotateBody(target, angle, AfterStage("rotate_pages"))

\* Line 50 as committed (commented out): no rotation.
no_rotation ==
    /\ pc = "rotate_pages"
    /\ pc' = AfterStage("rotate_pages")
    /\ UNCHANGED <<raised, files, odd_reader, even_reader, odd_pages,
                   even_pages, check, merge, out, files0, stages, moves, rot_calls>>

\* A client calling rotate_pages several times on the loaded documents.
call_rotate_pages ==
    /\ pc = "rotate_pages"
    /\ Len(rot_calls) < MaxCalls
    /\ \E target \in Targets, angle \in Angles :
          RotateBody(target, angle, "rotate_pages")

\* ------------------------------------------------------------ merge_files
\* Bug: the back pages taken in scan order (a plain interleave).
NotReversedEvenPages(pages, n) == [k \in 1..n |-> At(pages, k - 1)]

\* [self.even_reader.pages[i] for i in range(self.even_pages - 1, -1, -1)]
ReversedEvenPages(pages, n) == [k \in 1..n |-> At(pages, n - k)]

\* Bug: the loop stops one iteration early.
RECURSIVE AddPagesButLast(_, _, _, _, _)
AddPagesButLast(added, odd, rev, x, n) ==
    IF x >= n - 1 THEN added
    ELSE AddPagesButLast(added \o <<At(odd, x), At(rev, x)>>, odd, rev, x + 1, n)

\* The loop `for x in range(n)`, from iteration x on: two add_page calls each.
RECURSIVE AddPages(_, _, _, _, _)
AddPages(added, odd, rev, x, n) ==
    IF x >= n THEN added
    ELSE AddPages(added \o <<At(odd, x), At(rev, x)>>, odd, rev, x + 1, n)

WriteOutcomes == {"written", "open_fails", "write_fails"}

merge_files ==
    /\ pc = "merge_files"
    /\ LET rev == ReversedEvenPages(even_reader, even_pages) IN
       IF odd_pages > Len(rev)
       THEN \* reversed_even_pages[x] raises IndexError at x = len(rev)
            /\ merge' = Append(AddPages(<<>>, odd_reader, rev, 0, Len(rev)),
                               At(odd_reader, Len(rev)))
            /\ stages' = Append(stages, "merge")
            /\ Crash("IndexError")
            /\ UNCHANGED <<files, out>>
       ELSE /\ merge' = AddPages(<<>>, odd_reader, rev, 0, odd_pages)
            /\ stages' = stages \o <<"merge", "write">>
            /\ \E w \in WriteOutcomes :
                  CASE w = "written" ->
                         /\ files' = [files EXCEPT !["merged"] = Pdf(merge')]
                         /\ out' = Append(out, "merged_successfully")
                         /\ pc' = AfterStage("merge_files")
                         /\ UNCHANGED raised
                    [] w = "open_fails" ->
                         /\ Crash("open")
                         /\ UNCHANGED <<files, out>>
                    [] w = "write_fails" ->
                         /\ files' = [files EXCEPT !["merged"] = Truncated]
                         /\ Crash("write")
                         /\ UNCHANGED out
    /\ UNCHANGED <<odd_reader, even_reader, odd_pages, even_pages, check, files0,
                   moves, rot_calls>>

\* ------------------------------------------------------------- move_files
\* shutil.move(src, dst) on regular files: os.rename, or copy2 + os.unlink when
\* the rename fails.  An existing dst is replaced either way.
\*   moved   src is now at dst
\*   failed  nothing changed, OSError raised
\*   copied  dst written but src could not be unlinked, OSError raised
MoveOutcomes == {"moved", "failed", "copied"}

MoveFile(fs, src, dst, outcome) ==
    CASE outcome = "moved" -> [fs EXCEPT ![dst] = fs[src], ![src] = NoFile]
      [] outcome = "copied" -> [fs EXCEPT ![dst] = fs[src]]
      [] OTHER -> fs

MoveRaises(outcome) == IF outcome = "moved" THEN "none" ELSE "OSError"

\* Bug: the handler names an exception shutil.move does not raise here.
HandlerCatchesKeyError(exc) == exc = "KeyError"

\* `except OSError as e:`
HandlerCatches(exc) == exc = "OSError"

\* Bug (or another design): each move in a try block of its own.
SecondMoveAlwaysRuns(first) == TRUE

\* The second statement of the try block runs only when the first returned.
SecondMoveRuns(first) == MoveRaises(first) = "none"

move_files ==
    /\ pc = "move_files"
    /\ stages' = Append(stages, "archive")
    /\ \E mk \in {"created", "fails"}, o1 \in MoveOutcomes, o2 \in MoveOutcomes :
          IF ~PathExists(files, "archive_folder") /\ mk = "fails"
          THEN /\ Crash("makedirs")
               /\ UNCHANGED <<files, out, moves>>
          ELSE LET fs0 == [files EXCEPT !["archive_folder"] = Directory]
                   fs1 == MoveFile(fs0, "odd", "odd_new_name", o1)
                   m1 == <<[src |-> "odd", outcome |-> o1]>>
                   second == SecondMoveRuns(o1)
                   fs2 == IF second THEN MoveFile(fs1, "even", "even_new_name", o2)
                          ELSE fs1
                   m2 == IF second THEN m1 \o <<[src |-> "even", outcome |-> o2]>>
                         ELSE m1
                   exc == IF MoveRaises(o1) # "none" THEN MoveRaises(o1)
                          ELSE IF second THEN MoveRaises(o2) ELSE "none"
               IN /\ files' = fs2
                  /\ moves' = m2
                  /\ IF exc = "none"
                     THEN /\ out' = out \o <<"moved_input_files", "finished_successfully">>
                          /\ pc' = AfterStage("move_files")
                          /\ UNCHANGED raised
                     ELSE IF HandlerCatches(exc)
                     THEN /\ out' = out \o <<"error_while_moving", "finished_successfully">>
                          /\ pc' = AfterStage("move_files")
                          /\ UNCHANGED raised
                     ELSE /\ Crash(exc)
                          /\ UNCHANGED out
    /\ UNCHANGED <<odd_reader, even_reader, odd_pages, even_pages, check, merge,
                   files0, rot_calls>>

\* ------------------------------------------------------------------- Spec
Next ==
    \/ open_files
    \/ check_pages
    \/ rotate_pages
    \/ no_rotation
    \/ merge_files
    \/ move_files

Spec == Init /\ [][Next]_vars

\* load, validate, then rotate_pages called up to MaxCalls times.
NextRotate ==
    \/ open_files
    \/ check_pages
    \/ call_rotate_pages

SpecRotate == Init /\ [][NextRotate]_vars

\* ============================================================== properties
\* TRUE when the run has entered pipeline stage st.
Entered(st) == \E k \in 1..Len(stages) : stages[k] = st

\* The pages the two input files held when the run started.
Front0 == files0["odd"].pages
Back0 == files0["even"].pages

\* Both input files are PDFs the reader can load.
BothLoadable == files0["odd"].kind = "pdf" /\ files0["even"].kind = "pdf"

\* Which page of which scan a page is, whatever its rotation.
Ident(page) == <<page.doc, page.num>>

\* C1: for equal-length front and back of length n, the pages merge_files adds
\* satisfy O[2i] = front[i] and O[2i+1] = back[n-1-i] for every i in 0..n-1:
\* the page objects of the two readers, which are pages i and n-1-i of the
\* input files.
C1_InterleaveWithReversal ==
    (Entered("write") /\ odd_pages = even_pages) =>
        /\ Len(merge) = 2 * odd_pages
        /\ \A i \in 0..(odd_pages - 1) :
              /\ At(merge, 2 * i) = At(odd_reader, i)
              /\ At(merge, 2 * i + 1) = At(even_reader, odd_pages - 1 - i)
              /\ Ident(At(merge, 2 * i)) = Ident(At(Front0, i))
              /\ Ident(At(merge, 2 * i + 1)) = Ident(At(Back0, odd_pages - 1 - i))

\* front = [F1, F2, F3], back = [B1, B2, B3] was merged to [F1, B3, F2, B2, F3, B1].
C1_Witness ==
    /\ Entered("write")
    /\ Len(merge) = 6
    /\ [k \in 1..6 |-> Ident(merge[k])] =
          <<<<"odd", 0>>, <<"even", 2>>, <<"odd", 1>>, <<"even", 1>>,
            <<"odd", 2>>, <<"even", 0>>>>

\* C2: when front and back both have n pages (n >= 0), the merged document
\* that is written has exactly 2n pages, and merge_files never returns without
\* having written it; for n = 0 the validator lets the run proceed, nothing in
\* the program raises, and the document written is empty.
C2_MergedHas2nPages ==
    /\ files["merged"].kind = "pdf" =>
          /\ BothLoadable
          /\ Len(Front0) = Len(Back0)
          /\ files["merged"].pages = merge
          /\ Len(files["merged"].pages) = 2 * Len(Front0)
    /\ (Entered("archive") \/ pc = "move_files") => files["merged"].kind = "pdf"
    /\ (BothLoadable /\ Len(Front0) = 0 /\ Len(Back0) = 0) =>
          /\ Entered("validate") => (check /\ pc # "aborted")
          /\ raised \in {"none", "open", "write", "makedirs"}

\* Two empty inputs ran to the end and left an empty merged document.
C2_Witness ==
    /\ pc = "done"
    /\ BothLoadable /\ Front0 = <<>> /\ Back0 = <<>>
    /\ files["merged"] = Pdf(<<>>)

\* C3: when front.count # back.count the validator sets proceed = false and
\* the run ends with no side effects: no merged output, no archive directory
\* created, no input file moved or renamed.
C3_MismatchHasNoSideEffects ==
    (BothLoadable /\ Len(Front0) # Len(Back0)) =>
        /\ files = files0
        /\ merge = <<>>
        /\ moves = <<>>
        /\ ~Entered("merge") /\ ~Entered("write") /\ ~Entered("archive")
        /\ Entered("validate") =>
              /\ check = FALSE
              /\ pc = "aborted"
              /\ raised = "none"
              /\ out = <<"not_equal_aborting">>

\* A 2-page front and a 3-page back were rejected by the validator.
C3_Witness ==
    /\ pc = "aborted"
    /\ BothLoadable /\ Len(Front0) = 2 /\ Len(Back0) = 3
    /\ ~PathExists(files, "archive_folder")

\* C9: when loading either source document fails, the run ends with an
\* unrecoverable failure before validation: nothing is merged, no output is
\* written, no input is archived.
C9_LoadFailureIsFatal ==
    (~BothLoadable /\ Entered("load")) =>
        /\ pc = "crashed"
        /\ raised = IF files0["odd"].kind # "pdf" THEN "PdfReader_odd"
                    ELSE "PdfReader_even"
        /\ stages = <<"load">>
        /\ files = files0
        /\ merge = <<>>
        /\ moves = <<>>
        /\ out = <<>>

\* The front loaded, the back was unreadable, and the run crashed.
C9_Witness ==
    /\ pc = "crashed"
    /\ files0["odd"].kind = "pdf" /\ Len(Front0) = 2
    /\ files0["even"].kind = "corrupt"
    /\ odd_reader = Front0

\* The place of a stage in the pipeline.
StageRank(st) ==
    CASE st = "load" -> 1
      [] st = "validate" -> 2
      [] st = "rotate" -> 3
      [] st = "merge" -> 4
      [] st = "write" -> 5
      [] st = "archive" -> 6

InputsInPlace ==
    \A p \in {"odd", "even", "archive_folder", "odd_new_name", "even_new_name"} :
        files[p] = files0[p]

\* C10: the stages occur at most once each and only in the order load,
\* validate, (rotate), merge, write, archive; the readers' pages do not change
\* once the merge has read them; and the inputs stay where they were until the
\* merged output has been written completely, so a failure while merging or
\* writing leaves both inputs in place.
C10_FixedPipelineOrder ==
    /\ \A j, k \in 1..Len(stages) : j < k => StageRank(stages[j]) < StageRank(stages[k])
    /\ Entered("merge") =>
          \A k \in 1..Len(merge) :
              merge[k] = (IF merge[k].doc = "odd" THEN odd_reader ELSE even_reader)
                            [merge[k].num + 1]
    /\ ~InputsInPlace =>
          /\ Entered("write")
          /\ files["merged"] = Pdf(merge)
    /\ raised \in {"IndexError", "open", "write"} => InputsInPlace

\* A run went through every stage, rotation included.
C10_Witness ==
    /\ pc = "done"
    /\ stages = <<"load", "validate", "rotate", "merge", "write", "archive">>
    /\ files["odd"] = NoFile /\ files["even"] = NoFile
    /\ files["odd_new_name"] = Pdf(Front0)

\* TRUE when some shutil.move call of the run raised.
SomeMoveFailed == \E k \in 1..Len(moves) : moves[k].outcome # "moved"

\* The number of times `line` was printed.
Printed(line) == Cardinality({k \in 1..Len(out) : out[k] = line})

\* C4: once the merged output has been written, no outcome of the archiving
\* step (both moves succeed, the first fails, the second fails, a name is
\* already taken in the archive) deletes or changes it, and a failed move is
\* caught and reported, not propagated: the run still ends normally.
C4_ArchivingKeepsMergedOutput ==
    /\ Entered("archive") => files["merged"] = Pdf(merge)
    /\ SomeMoveFailed =>
          /\ pc = "done"
          /\ raised = "none"
          /\ Printed("error_while_moving") = 1
          /\ Printed("moved_input_files") = 0

\* The front was archived over an existing name, the move of the back failed,
\* and the merged output is still the one merge_files wrote.
C4_Witness ==
    /\ pc = "done"
    /\ Len(moves) = 2 /\ moves[1].outcome = "moved" /\ moves[2].outcome = "failed"
    /\ files0["odd_new_name"] # NoFile
    /\ Len(merge) = 4
    /\ files["merged"] = Pdf(merge)

\* C5: the archiver never silently overwrites an existing archived file: an
\* archived file present when the run starts is still there, unchanged, at
\* every later point of the run.
C5_NeverOverwritesArchivedFile ==
    \A p \in {"odd_new_name", "even_new_name"} :
        PathExists(files0, p) => files[p] = files0[p]

\* C6 as stated: each input file gets its own relocation attempt, so when the
\* archiving step has ended both moves have been attempted, whatever the
\* outcome of the first.
C6_EachFileIsAttempted ==
    (pc = "done") =>
        /\ Len(moves) = 2
        /\ moves[1].src = "odd" /\ moves[2].src = "even"

\* C6 as amended: the two moves share one handler. Each file is attempted at
\* most once, the front first; the first move that fails is reported, once,
\* and ends the archiving step, so after a failed move of the front the back is
\* not attempted and stays where it was, while a failed move of the back is
\* reported after the front has been archived.
C6_FirstFailureEndsArchiving ==
    /\ Len(moves) <= 2
    /\ Len(moves) >= 1 => moves[1].src = "odd"
    /\ Len(moves) = 2 => (moves[2].src = "even" /\ moves[1].outcome = "moved")
    /\ (pc = "done" /\ moves[1].outcome = "moved") => Len(moves) = 2
    /\ (pc = "done" /\ moves[1].outcome # "moved") =>
          /\ Len(moves) = 1
          /\ files["even"] = files0["even"]
          /\ files["even_new_name"] = files0["even_new_name"]
    /\ (pc = "done" /\ Len(moves) = 2 /\ moves[2].outcome # "moved") =>
          /\ files["odd"] = NoFile
          /\ files["odd_new_name"] = files0["odd"]
    /\ Printed("error_while_moving") = (IF SomeMoveFailed THEN 1 ELSE 0)

\* The move of the front failed; the back was left in the working directory.
C6_Witness ==
    /\ pc = "done"
    /\ moves = <<[src |-> "odd", outcome |-> "failed"]>>
    /\ Len(Back0) = 1
    /\ files["even"] = Pdf(Back0)
    /\ ~PathExists(files, "even_new_name")

\* The pages of a document with every rotation reduced modulo 360.
Mod360(pages) == [i \in 1..Len(pages) |-> [pages[i] EXCEPT !.rot = @ % 360]]

\* C8: rotate_pages with a target other than 'odd' or 'even' changes no page
\* of either document, reports the invalid target, and does not abort: the run
\* goes on to merge, write and archive, and what it writes is the merge of the
\* unrotated documents.
C8_InvalidTargetIsNoOp ==
    (rot_calls # <<>> /\ rot_calls[1][1] \notin {"odd", "even"}) =>
        /\ odd_reader = Front0
        /\ even_reader = Back0
        /\ Printed("invalid_target") = 1
        /\ Printed("rotated_odd") = 0 /\ Printed("rotated_even") = 0
        /\ pc \in {"merge_files", "move_files", "done", "crashed"}
        /\ raised \in {"none", "open", "write", "makedirs"}
        /\ files["merged"].kind = "pdf" =>
              files["merged"].pages =
                 AddPages(<<>>, Front0, ReversedEvenPages(Back0, Len(Back0)), 0, Len(Front0))

\* rotate_pages('front', 45) was called and the run still archived its inputs.
C8_Witness ==
    /\ pc = "done"
    /\ rot_calls = <<<<"front", 45>>>>
    /\ Len(Front0) = 2
    /\ Len(files["merged"].pages) = 4
    /\ ~SomeMoveFailed

\* C7: for a valid target and multiples of 90 a and b, rotate_pages(target, a)
\* followed by rotate_pages(target, b) leaves every page of the selected
\* document with the rotation (mod 360) that one rotate_pages(target,
\* (a + b) mod 360) gives it, and leaves the other document as it was.
C7_RotationsAdd ==
    (/\ Len(rot_calls) = 2
     /\ rot_calls[1][1] = rot_calls[2][1]
     /\ rot_calls[1][1] \in {"odd", "even"}
     /\ rot_calls[1][2] % 90 = 0
     /\ rot_calls[2][2] % 90 = 0) =>
        LET target == rot_calls[1][1]
            a == rot_calls[1][2]
            b == rot_calls[2][2]
            selected == IF target = "odd" THEN odd_reader ELSE even_reader
            other == IF target = "odd" THEN even_reader ELSE odd_reader
            selected0 == IF target = "odd" THEN Front0 ELSE Back0
            other0 == IF target = "odd" THEN Back0 ELSE Front0
            once == [i \in 1..Len(selected0) |->
                        [selected0[i] EXCEPT !.rot = @ + ((a + b) % 360)]]
        IN /\ raised = "none"
           /\ Mod360(selected) = Mod360(once)
           /\ other = other0

\* The back was rotated by 270 and then by 180: its pages now carry 450 or 540.
C7_Witness ==
    /\ rot_calls = <<<<"even", 270>>, <<"even", 180>>>>
    /\ Len(even_reader) = 2
    /\ even_reader[1].rot = 450
    /\ even_reader[2].rot = 540
    /\ odd_reader = Front0

====
